---- MODULE Spec2Model ----
(***************************************************************************)
(* Model of custom-pyqt5-titlebar.py: the frameless MainWindow (edge       *)
(* hit-testing, resize sessions, cursor feedback) and its CustomTitleBar   *)
(* (drag-to-move, maximize / fullscreen toggles and their icons).          *)
(*                                                                         *)
(* Mouse events carry a global position; the local position a handler      *)
(* reads with event.pos() is the global position relative to the window's  *)
(* top-left corner.  Pointer positions are drawn from a lattice whose      *)
(* step divides (minimum size - edge margin), so that the lattice has      *)
(* points inside both edge zones of the window and points in its interior. *)
(***************************************************************************)
EXTENDS Integers, Sequences, FiniteSets

(* ---- program constants ------------------------------------------------ *)
_edge_margin == 8
minimumWidth == 800
minimumHeight == 600
TitleBarHeight == 65

(* ---- bounds of the model ---------------------------------------------- *)
\* Cells: lattice cells across (minimum size - edge margin); MaxSteps: lattice
\* steps by which the window may in total be displaced and enlarged;
\* OriginX, OriginY: the top-left corner of the screen area and of the window
\* as first shown.
Cells == 2
MaxSteps == 2
OriginX == 100
OriginY == 100

StepX == (minimumWidth - _edge_margin) \div Cells
StepY == (minimumHeight - _edge_margin) \div Cells
PointerCols == Cells + MaxSteps

PointerXs == {OriginX + k * StepX : k \in 0..PointerCols}
PointerYs == {OriginY + k * StepY : k \in 0..PointerCols}
Pointers == [x : PointerXs, y : PointerYs]

WindowWs == {minimumWidth + k * StepX : k \in 0..MaxSteps}
WindowHs == {minimumHeight + k * StepY : k \in 0..MaxSteps}

(* ---- Python / Qt values ----------------------------------------------- *)
None == "None"
Buttons == {"LeftButton", "RightButton"}
Directions == {"top-left", "bottom-left", "top-right", "bottom-right",
               "left", "right", "top", "bottom"}
Cursors == {"ArrowCursor", "SizeHorCursor", "SizeVerCursor",
            "SizeFDiagCursor", "SizeBDiagCursor"}

VARIABLES
    geometry,           \* QWidget.geometry() of the main window: [x, y, w, h]
    rect,               \* the rectangle last handed to setGeometry: <<>> or <<r>>
    _drag_pos,          \* MainWindow._drag_pos: <<>> (None) or <<point>>
    _resizing,          \* MainWindow._resizing
    _resize_direction,  \* MainWindow._resize_direction
    cursor,             \* the cursor shape set on the main window
    held,               \* the mouse buttons currently down
    grab,               \* the widget receiving events while a button is down
    ev,                 \* the last event delivered to MainWindow: [kind, button, pos, was]
    lastPress,          \* where the most recent primary-button press on the frame landed
    start,              \* CustomTitleBar.start: <<>> (None) or <<point>>
    windowState,        \* the main window's state: [maximized, fullscreen]
    normalGeometry,     \* the geometry showNormal() returns to
    maximizeIcon,       \* the icon file set on maximizeButton
    fullScreenIcon,     \* the icon file set on fullScreenButton
    drag,               \* bookkeeping of the current title-bar drag
    scenario,           \* progress through maximize, fullscreen, maximize clicks
    raised              \* the exception a handler left unhandled: "none" or its type

frameVars == <<rect, _drag_pos, _resizing, _resize_direction, cursor, lastPress>>
titleVars == <<start, windowState, normalGeometry, maximizeIcon, fullScreenIcon,
               drag, scenario>>
vars == <<geometry, rect, _drag_pos, _resizing, _resize_direction, cursor,
          held, grab, ev, lastPress, start, windowState, normalGeometry,
          maximizeIcon, fullScreenIcon, drag, scenario, raised>>

(* ---- QPoint / QRect ---------------------------------------------------- *)
Max(a, b) == IF a >= b THEN a ELSE b

QPointSub(p, q) == [x |-> p.x - q.x, y |-> p.y - q.y]

\* QRect.setWidth / setHeight keep the top-left corner.
setWidth(r, w) == [r EXCEPT !.w = w]
setHeight(r, h) == [r EXCEPT !.h = h]
\* QRect.setLeft / setTop move one edge and keep the opposite edge.
setLeft(r, l) == [r EXCEPT !.x = l, !.w = r.w + (r.x - l)]
setTop(r, t) == [r EXCEPT !.y = t, !.h = r.h + (r.y - t)]

\* The record of an event delivered to MainWindow: its kind and button, its
\* local position (<<>> when the handler reads none) and, for a release, the
\* frame's <<_resizing, _resize_direction, cursor>> just before it (<<>>
\* otherwise).
Event(kind, button, pos, was) ==
    [kind |-> kind, button |-> button, pos |-> pos, was |-> was]

\* event.pos(): the global position relative to the window.
LocalPos(gpos) == [x |-> gpos.x - geometry.x, y |-> gpos.y - geometry.y]

(* ---- str: Python strings as character sequences ----------------------- *)
Chars(s) ==
    CASE s = "left"         -> <<"l","e","f","t">>
      [] s = "right"        -> <<"r","i","g","h","t">>
      [] s = "top"          -> <<"t","o","p">>
      [] s = "bottom"       -> <<"b","o","t","t","o","m">>
      [] s = "top-left"     -> <<"t","o","p","-","l","e","f","t">>
      [] s = "top-right"    -> <<"t","o","p","-","r","i","g","h","t">>
      [] s = "bottom-left"  -> <<"b","o","t","t","o","m","-","l","e","f","t">>
      [] s = "bottom-right" -> <<"b","o","t","t","o","m","-","r","i","g","h","t">>

\* Python's `word in text` on strings: word occurs as a substring of text.
StrIn(word, text) ==
    LET w == Chars(word)
        t == Chars(text)
    IN \E i \in 1..(Len(t) - Len(w) + 1) : SubSeq(t, i, i + Len(w) - 1) = w

\* Python truthiness of an Optional[str].
Truthy(s) == s # None /\ s # ""

(* ---- MainWindow ------------------------------------------------------- *)
\* Variant of _get_resize_direction that tests the single edges before the corners.
EdgesBeforeCorners(pos, w, h) ==
    LET near_left == pos.x <= _edge_margin
        near_right == pos.x >= w - _edge_margin
        near_top == pos.y <= _edge_margin
        near_bottom == pos.y >= h - _edge_margin
    IN IF near_left THEN "left"
       ELSE IF near_right THEN "right"
       ELSE IF near_top THEN "top"
       ELSE IF near_bottom THEN "bottom"
       ELSE IF near_left /\ near_top THEN "top-left"
       ELSE IF near_left /\ near_bottom THEN "bottom-left"
       ELSE IF near_right /\ near_top THEN "top-right"
       ELSE IF near_right /\ near_bottom THEN "bottom-right"
       ELSE None

\* _get_resize_direction(pos) on a window whose rect() is w wide and h high.
_get_resize_direction(pos, w, h) ==
    LET near_left == pos.x <= _edge_margin
        near_right == pos.x >= w - _edge_margin
        near_top == pos.y <= _edge_margin
        near_bottom == pos.y >= h - _edge_margin
    IN IF near_left /\ near_top THEN "top-left"
       ELSE IF near_left /\ near_bottom THEN "bottom-left"
       ELSE IF near_right /\ near_top THEN "top-right"
       ELSE IF near_right /\ near_bottom THEN "bottom-right"
       ELSE IF near_left THEN "left"
       ELSE IF near_right THEN "right"
       ELSE IF near_top THEN "top"
       ELSE IF near_bottom THEN "bottom"
       ELSE None

\* Variant of setGeometry on a window that was given no minimum size.
setGeometryNoMinimum(r) == r

\* QWidget.setGeometry on a window with setMinimumSize(800, 600): the size is
\* held to the minimum, the requested top-left corner is taken as given.
setGeometry(r) ==
    [r EXCEPT !.w = Max(r.w, minimumWidth), !.h = Max(r.h, minimumHeight)]

\* Variant of _perform_resize whose Right branch omits max(..., minimumWidth()).
ResizedRectNoMaxWidth(r, delta, direction) ==
    LET r1 == IF StrIn("right", direction)
              THEN setWidth(r, r.w + delta.x) ELSE r
        r2 == IF StrIn("left", direction)
              THEN setLeft(r1, r1.x + delta.x) ELSE r1
        r3 == IF StrIn("bottom", direction)
              THEN setHeight(r2, Max(r2.h + delta.y, minimumHeight)) ELSE r2
        r4 == IF StrIn("top", direction)
              THEN setTop(r3, r3.y + delta.y) ELSE r3
    IN r4

\* Variant of _perform_resize whose Bottom branch omits max(..., minimumHeight()).
ResizedRectNoMaxHeight(r, delta, direction) ==
    LET r1 == IF StrIn("right", direction)
              THEN setWidth(r, Max(r.w + delta.x, minimumWidth)) ELSE r
        r2 == IF StrIn("left", direction)
              THEN setLeft(r1, r1.x + delta.x) ELSE r1
        r3 == IF StrIn("bottom", direction)
              THEN setHeight(r2, r2.h + delta.y) ELSE r2
        r4 == IF StrIn("top", direction)
              THEN setTop(r3, r3.y + delta.y) ELSE r3
    IN r4

\* Variant of _perform_resize that stops the left and top edges where the
\* rectangle reaches the minimum size.
ResizedRectLeftTopClamped(r, delta, direction) ==
    LET Min(a, b) == IF a <= b THEN a ELSE b
        r1 == IF StrIn("right", direction)
              THEN setWidth(r, Max(r.w + delta.x, minimumWidth)) ELSE r
        r2 == IF StrIn("left", direction)
              THEN setLeft(r1, Min(r1.x + delta.x, r1.x + r1.w - minimumWidth))
              ELSE r1
        r3 == IF StrIn("bottom", direction)
              THEN setHeight(r2, Max(r2.h + delta.y, minimumHeight)) ELSE r2
        r4 == IF StrIn("top", direction)
              THEN setTop(r3, Min(r3.y + delta.y, r3.y + r3.h - minimumHeight))
              ELSE r3
    IN r4

\* The rectangle _perform_resize computes from geometry() before setGeometry.
ResizedRect(r, delta, direction) ==
    LET r1 == IF StrIn("right", direction)
              THEN setWidth(r, Max(r.w + delta.x, minimumWidth)) ELSE r
        r2 == IF StrIn("left", direction)
              THEN setLeft(r1, r1.x + delta.x) ELSE r1
        r3 == IF StrIn("bottom", direction)
              THEN setHeight(r2, Max(r2.h + delta.y, minimumHeight)) ELSE r2
        r4 == IF StrIn("top", direction)
              THEN setTop(r3, r3.y + delta.y) ELSE r3
    IN r4

\* The cursor _update_cursor(pos) sets.
CursorFor(direction) ==
    IF direction \in {"left", "right"} THEN "SizeHorCursor"
    ELSE IF direction \in {"top", "bottom"} THEN "SizeVerCursor"
    ELSE IF direction \in {"top-left", "bottom-right"} THEN "SizeFDiagCursor"
    ELSE IF direction \in {"top-right", "bottom-left"} THEN "SizeBDiagCursor"
    ELSE "ArrowCursor"

\* Whether a local position lies on the window (where a press can land).
OnWindow(pos) ==
    /\ 0 <= pos.x /\ pos.x < geometry.w
    /\ 0 <= pos.y /\ pos.y < geometry.h

\* Whether a local position lies on the title bar strip (setFixedHeight(65)),
\* which takes the presses that land on it.
OnTitleBar(pos) == OnWindow(pos) /\ pos.y < TitleBarHeight

\* A local position within the edge margin of some side of a w x h window.
InMargin(pos, w, h) ==
    \/ pos.x <= _edge_margin
    \/ pos.x >= w - _edge_margin
    \/ pos.y <= _edge_margin
    \/ pos.y >= h - _edge_margin

\* The window stays within the modelled range of positions and sizes.
Displaced(g) == (g.x - OriginX) \div StepX + (g.y - OriginY) \div StepY
Enlarged(g) == (g.w - minimumWidth) \div StepX + (g.h - minimumHeight) \div StepY
InRange(g) ==
    /\ g.x >= OriginX /\ g.y >= OriginY
    /\ Displaced(g) + Enlarged(g) <= MaxSteps

\* The same range for a window that is only moved.
InPlace(g) ==
    /\ g.x >= OriginX /\ g.y >= OriginY
    /\ Displaced(g) <= MaxSteps

\* Variant of mousePressEvent that sets _resizing before testing the direction.
PressAlwaysResizing(button, gpos) ==
    LET pos == LocalPos(gpos)
        direction == _get_resize_direction(pos, geometry.w, geometry.h)
    IN /\ button \notin held
       /\ grab \in {"none", "frame"}
       /\ grab = "none" => OnWindow(pos) /\ ~OnTitleBar(pos)
       /\ IF button = "LeftButton"
          THEN /\ _drag_pos' = <<gpos>>
               /\ _resize_direction' = direction
               /\ _resizing' = TRUE
               /\ lastPress' = IF InMargin(pos, geometry.w, geometry.h)
                               THEN "margin" ELSE "interior"
          ELSE UNCHANGED <<_drag_pos, _resize_direction, _resizing, lastPress>>
       /\ held' = held \cup {button}
       /\ grab' = "frame"
       /\ ev' = Event("press", button,
                     IF button = "LeftButton" THEN <<pos>> ELSE <<>>, <<>>)
       /\ UNCHANGED <<geometry, rect, cursor>>
       /\ UNCHANGED titleVars

\* MainWindow.mousePressEvent
MainWindow_mousePressEvent(button, gpos) ==
    LET pos == LocalPos(gpos)
        direction == _get_resize_direction(pos, geometry.w, geometry.h)
    IN /\ button \notin held
       /\ grab \in {"none", "frame"}
       /\ grab = "none" => OnWindow(pos) /\ ~OnTitleBar(pos)
       /\ IF button = "LeftButton"
          THEN /\ _drag_pos' = <<gpos>>
               /\ _resize_direction' = direction
               /\ _resizing' = IF Truthy(direction) THEN TRUE ELSE _resizing
               /\ lastPress' = IF InMargin(pos, geometry.w, geometry.h)
                               THEN "margin" ELSE "interior"
          ELSE UNCHANGED <<_drag_pos, _resize_direction, _resizing, lastPress>>
       /\ held' = held \cup {button}
       /\ grab' = "frame"
       /\ ev' = Event("press", button,
                     IF button = "LeftButton" THEN <<pos>> ELSE <<>>, <<>>)
       /\ UNCHANGED <<geometry, rect, cursor>>
       /\ UNCHANGED titleVars

\* Whether mouseMoveEvent takes its resize branch.
MoveResizes == _resizing /\ Truthy(_resize_direction)

\* Variant of mouseMoveEvent that calls _update_cursor outside the resize branch.
MoveAlwaysUpdatesCursor(gpos) ==
    /\ grab \in {"none", "frame"}
    /\ grab = "none" => OnWindow(LocalPos(gpos))
    /\ IF MoveResizes
       THEN LET delta == QPointSub(gpos, _drag_pos[1])
                r == ResizedRect(geometry, delta, _resize_direction)
                g == setGeometry(r)
            IN /\ InRange(g)
               /\ rect' = <<r>>
               /\ geometry' = g
               /\ _drag_pos' = <<gpos>>
               /\ cursor' = CursorFor(_get_resize_direction(LocalPos(gpos),
                                                            g.w, g.h))
       ELSE /\ UNCHANGED <<geometry, rect, _drag_pos>>
            /\ cursor' = CursorFor(_get_resize_direction(LocalPos(gpos),
                                                         geometry.w, geometry.h))
    /\ ev' = Event("move", None,
                  IF MoveResizes THEN <<LocalPos(gpos)>> ELSE <<>>, <<>>)
    /\ UNCHANGED <<_resizing, _resize_direction, held, grab, lastPress>>
    /\ UNCHANGED titleVars

\* Variant of mouseMoveEvent that sets the cursor of the session's direction.
MoveCursorOfSession(gpos) ==
    /\ grab \in {"none", "frame"}
    /\ grab = "none" => OnWindow(LocalPos(gpos))
    /\ IF MoveResizes
       THEN LET delta == QPointSub(gpos, _drag_pos[1])
                r == ResizedRect(geometry, delta, _resize_direction)
                g == setGeometry(r)
            IN /\ InRange(g)
               /\ rect' = <<r>>
               /\ geometry' = g
               /\ _drag_pos' = <<gpos>>
               /\ cursor' = CursorFor(_resize_direction)
       ELSE UNCHANGED <<geometry, rect, _drag_pos, cursor>>
    /\ ev' = Event("move", None,
                  IF MoveResizes THEN <<LocalPos(gpos)>> ELSE <<>>, <<>>)
    /\ UNCHANGED <<_resizing, _resize_direction, held, grab, lastPress>>
    /\ UNCHANGED titleVars

\* Variant of mouseMoveEvent whose resize branch takes the direction anew
\* from the event's position.
MoveReclassifies(gpos) ==
    /\ grab \in {"none", "frame"}
    /\ grab = "none" => OnWindow(LocalPos(gpos))
    /\ IF MoveResizes
       THEN LET delta == QPointSub(gpos, _drag_pos[1])
                r == ResizedRect(geometry, delta, _resize_direction)
                g == setGeometry(r)
            IN /\ InRange(g)
               /\ rect' = <<r>>
               /\ geometry' = g
               /\ _drag_pos' = <<gpos>>
               /\ cursor' = CursorFor(_get_resize_direction(LocalPos(gpos),
                                                            g.w, g.h))
               /\ _resize_direction' = _get_resize_direction(LocalPos(gpos),
                                                             g.w, g.h)
       ELSE UNCHANGED <<geometry, rect, _drag_pos, cursor, _resize_direction>>
    /\ ev' = Event("move", None,
                  IF MoveResizes THEN <<LocalPos(gpos)>> ELSE <<>>, <<>>)
    /\ UNCHANGED <<_resizing, held, grab, lastPress>>
    /\ UNCHANGED titleVars

\* MainWindow.mouseMoveEvent, with _perform_resize and _update_cursor
MainWindow_mouseMoveEvent(gpos) ==
    /\ grab \in {"none", "frame"}
    /\ grab = "none" => OnWindow(LocalPos(gpos))
    /\ IF MoveResizes
       THEN LET delta == QPointSub(gpos, _drag_pos[1])
                r == ResizedRect(geometry, delta, _resize_direction)
                g == setGeometry(r)
            IN /\ InRange(g)
               /\ rect' = <<r>>
               /\ geometry' = g
               /\ _drag_pos' = <<gpos>>
               \* event.pos() was fixed when the event was delivered
               /\ cursor' = CursorFor(_get_resize_direction(LocalPos(gpos),
                                                            g.w, g.h))
       ELSE UNCHANGED <<geometry, rect, _drag_pos, cursor>>
    /\ ev' = Event("move", None,
                  IF MoveResizes THEN <<LocalPos(gpos)>> ELSE <<>>, <<>>)
    /\ UNCHANGED <<_resizing, _resize_direction, held, grab, lastPress>>
    /\ UNCHANGED titleVars

\* Variant of mouseReleaseEvent that does not reset the cursor.
ReleaseKeepsCursor(button) ==
    /\ grab = "frame"
    /\ button \in held
    /\ _resizing' = FALSE
    /\ _resize_direction' = None
    /\ held' = held \ {button}
    /\ grab' = IF held' = {} THEN "none" ELSE "frame"
    /\ ev' = Event("release", button, <<>>,
                  <<_resizing, _resize_direction, cursor>>)
    /\ UNCHANGED <<geometry, rect, _drag_pos, lastPress, cursor>>
    /\ UNCHANGED titleVars

\* Variant of mouseReleaseEvent that does not clear _resize_direction.
ReleaseKeepsDirection(button) ==
    /\ grab = "frame"
    /\ button \in held
    /\ _resizing' = FALSE
    /\ cursor' = "ArrowCursor"
    /\ held' = held \ {button}
    /\ grab' = IF held' = {} THEN "none" ELSE "frame"
    /\ ev' = Event("release", button, <<>>,
                  <<_resizing, _resize_direction, cursor>>)
    /\ UNCHANGED <<geometry, rect, _drag_pos, lastPress, _resize_direction>>
    /\ UNCHANGED titleVars

\* MainWindow.mouseReleaseEvent
MainWindow_mouseReleaseEvent(button) ==
    /\ grab = "frame"
    /\ button \in held
    /\ _resizing' = FALSE
    /\ _resize_direction' = None
    /\ cursor' = "ArrowCursor"
    /\ held' = held \ {button}
    /\ grab' = IF held' = {} THEN "none" ELSE "frame"
    /\ ev' = Event("release", button, <<>>,
                  <<_resizing, _resize_direction, cursor>>)
    /\ UNCHANGED <<geometry, rect, _drag_pos, lastPress>>
    /\ UNCHANGED titleVars

(* ---- CustomTitleBar --------------------------------------------------- *)
\* The screen area a maximized or fullscreen window covers.
Screen ==
    [x |-> OriginX, y |-> OriginY,
     w |-> minimumWidth + MaxSteps * StepX, h |-> minimumHeight + MaxSteps * StepY]

\* QWidget.showMaximized / showFullScreen / showNormal: the window state after
\* the call.  Each call leaves exactly the state it names.
showMaximized(ws) == [maximized |-> TRUE, fullscreen |-> FALSE]
showFullScreen(ws) == [maximized |-> FALSE, fullscreen |-> TRUE]
showNormal(ws) == [maximized |-> FALSE, fullscreen |-> FALSE]

isMaximized(ws) == ws.maximized
isFullScreen(ws) == ws.fullscreen
IsNormal(ws) == ~ws.maximized /\ ~ws.fullscreen

\* The geometry kept for showNormal() when the window leaves the normal state.
SavedNormal == IF IsNormal(windowState) THEN geometry ELSE normalGeometry

\* Variant of the restore condition that forgets isMaximized().
NeedsRestoreFullScreenOnly(ws) == isFullScreen(ws)

\* The condition under which mouseMoveEvent restores the window first.
NeedsRestore(ws) == isMaximized(ws) \/ isFullScreen(ws)

\* Bookkeeping of a drag: the window state at its press, how many moves were
\* applied ("none", "one", "several"), the showNormal() calls its moves issued,
\* and the number of those calls when the first move was applied; and, from its
\* latest press: whether the window was normal then, the window position
\* relative to the pressed global position (offset), and the global position
\* of the latest press or move (last).
NoDrag ==
    [from |-> "none", moves |-> "none", showNormalCalls |-> 0, callsAtFirstMove |-> <<>>,
     normalAtPress |-> FALSE, offset |-> <<>>, last |-> <<>>]

StateName(ws) ==
    IF isMaximized(ws) THEN "maximized"
    ELSE IF isFullScreen(ws) THEN "fullscreen" ELSE "normal"

\* CustomTitleBar.mousePressEvent
CustomTitleBar_mousePressEvent(button, gpos) ==
    /\ button \notin held
    /\ grab \in {"none", "title"}
    /\ grab = "none" => OnTitleBar(LocalPos(gpos))
    /\ start' = <<gpos>>
    /\ held' = held \cup {button}
    /\ grab' = "title"
    /\ UNCHANGED ev
    /\ drag' = [(IF grab = "none"
                 THEN [NoDrag EXCEPT !.from = StateName(windowState)]
                 ELSE drag)
                EXCEPT !.normalAtPress = IsNormal(windowState),
                       !.offset = <<[x |-> geometry.x - gpos.x,
                                     y |-> geometry.y - gpos.y]>>,
                       !.last = <<gpos>>]
    /\ scenario' = 0
    /\ UNCHANGED <<geometry, windowState, normalGeometry, maximizeIcon, fullScreenIcon>>
    /\ UNCHANGED frameVars

\* Variant of the title bar's mouseMoveEvent that does not update self.start.
TitleMoveKeepsAnchor(gpos) ==
    LET restore == NeedsRestore(windowState)
        ws == IF restore THEN showNormal(windowState) ELSE windowState
        g0 == IF restore THEN normalGeometry ELSE geometry
        calls == drag.showNormalCalls + (IF restore THEN 1 ELSE 0)
        delta == QPointSub(gpos, start[1])
        g == [g0 EXCEPT !.x = g0.x + delta.x, !.y = g0.y + delta.y]
    IN /\ grab = "title"
       /\ InPlace(g)
       /\ windowState' = ws
       /\ maximizeIcon' = IF restore THEN "maximize-button-icon-white.png"
                          ELSE maximizeIcon
       /\ fullScreenIcon' = IF restore THEN "fullscreen-button-icon-white.png"
                            ELSE fullScreenIcon
       /\ geometry' = g
       /\ drag' = [drag EXCEPT !.showNormalCalls = calls,
                               !.moves = IF @ = "none" THEN "one" ELSE "several",
                               !.callsAtFirstMove =
                                   IF drag.moves = "none" THEN <<calls>> ELSE @,
                               !.last = <<gpos>>]
       /\ scenario' = 0
       /\ UNCHANGED <<normalGeometry, held, grab, start, ev>>
       /\ UNCHANGED frameVars

\* CustomTitleBar.mouseMoveEvent
CustomTitleBar_mouseMoveEvent(gpos) ==
    LET restore == NeedsRestore(windowState)
        ws == IF restore THEN showNormal(windowState) ELSE windowState
        g0 == IF restore THEN normalGeometry ELSE geometry
        calls == drag.showNormalCalls + (IF restore THEN 1 ELSE 0)
        delta == QPointSub(gpos, start[1])
        g == [g0 EXCEPT !.x = g0.x + delta.x, !.y = g0.y + delta.y]
    IN /\ grab = "title"
       /\ InPlace(g)
       /\ windowState' = ws
       /\ maximizeIcon' = IF restore THEN "maximize-button-icon-white.png"
                          ELSE maximizeIcon
       /\ fullScreenIcon' = IF restore THEN "fullscreen-button-icon-white.png"
                            ELSE fullScreenIcon
       /\ geometry' = g
       /\ start' = <<gpos>>
       /\ drag' = [drag EXCEPT !.showNormalCalls = calls,
                               !.moves = IF @ = "none" THEN "one" ELSE "several",
                               !.callsAtFirstMove =
                                   IF drag.moves = "none" THEN <<calls>> ELSE @,
                               !.last = <<gpos>>]
       /\ UNCHANGED ev
       /\ scenario' = 0
       /\ UNCHANGED <<normalGeometry, held, grab>>
       /\ UNCHANGED frameVars

\* CustomTitleBar.mouseMoveEvent while self.start is still None (a move that
\* reaches the title bar before any press on it): the restore branch runs, then
\* event.globalPos() - self.start raises TypeError before the window is moved.
CustomTitleBar_mouseMoveEvent_startNone(gpos) ==
    LET restore == NeedsRestore(windowState)
    IN /\ grab = "none"
       /\ start = <<>>
       /\ windowState' = IF restore THEN showNormal(windowState) ELSE windowState
       /\ geometry' = IF restore THEN normalGeometry ELSE geometry
       /\ maximizeIcon' = IF restore THEN "maximize-button-icon-white.png"
                          ELSE maximizeIcon
       /\ fullScreenIcon' = IF restore THEN "fullscreen-button-icon-white.png"
                            ELSE fullScreenIcon
       /\ raised' = "TypeError"
       /\ scenario' = 0
       /\ UNCHANGED <<normalGeometry, held, grab, start, drag, ev>>
       /\ UNCHANGED frameVars

\* The title bar defines no mouseReleaseEvent: releasing a button ends the drag
\* and changes nothing in the program.
CustomTitleBar_mouseReleaseEvent(button) ==
    /\ grab = "title"
    /\ button \in held
    /\ held' = held \ {button}
    /\ grab' = IF held' = {} THEN "none" ELSE "title"
    /\ drag' = IF held' = {} THEN NoDrag ELSE drag
    /\ UNCHANGED ev
    /\ scenario' = 0
    /\ UNCHANGED <<geometry, start, windowState, normalGeometry, maximizeIcon,
                   fullScreenIcon>>
    /\ UNCHANGED frameVars

\* CustomTitleBar.showParentMaximized (a click on maximizeButton)
showParentMaximized ==
    /\ grab = "none"
    /\ IF isMaximized(windowState)
       THEN /\ maximizeIcon' = "maximize-button-icon-white.png"
            /\ fullScreenIcon' = "fullscreen-button-icon-white.png"
            /\ windowState' = showNormal(windowState)
            /\ geometry' = normalGeometry
            /\ UNCHANGED normalGeometry
       ELSE /\ maximizeIcon' = "normal-button-icon-white.png"
            /\ UNCHANGED fullScreenIcon
            /\ windowState' = showMaximized(windowState)
            /\ normalGeometry' = SavedNormal
            /\ geometry' = Screen
    /\ scenario' = IF scenario = 2 THEN 3
                   ELSE IF IsNormal(windowState) THEN 1 ELSE 0
    /\ UNCHANGED ev
    /\ UNCHANGED <<start, drag, held, grab>>
    /\ UNCHANGED frameVars

\* Variant of showParentFullScreen whose restore branch leaves the maximize
\* icon alone.
showParentFullScreenOwnIconOnly ==
    /\ grab = "none"
    /\ IF isFullScreen(windowState)
       THEN /\ fullScreenIcon' = "fullscreen-button-icon-white.png"
            /\ UNCHANGED maximizeIcon
            /\ windowState' = showNormal(windowState)
            /\ geometry' = normalGeometry
            /\ UNCHANGED normalGeometry
       ELSE /\ fullScreenIcon' = "end-fullscreen-button-icon-white.png"
            /\ UNCHANGED maximizeIcon
            /\ windowState' = showFullScreen(windowState)
            /\ normalGeometry' = SavedNormal
            /\ geometry' = Screen
    /\ scenario' = IF scenario = 1 THEN 2 ELSE 0
    /\ UNCHANGED ev
    /\ UNCHANGED <<start, drag, held, grab>>
    /\ UNCHANGED frameVars

\* CustomTitleBar.showParentFullScreen (a click on fullScreenButton)
showParentFullScreen ==
    /\ grab = "none"
    /\ IF isFullScreen(windowState)
       THEN /\ fullScreenIcon' = "fullscreen-button-icon-white.png"
            /\ maximizeIcon' = "maximize-button-icon-white.png"
            /\ windowState' = showNormal(windowState)
            /\ geometry' = normalGeometry
            /\ UNCHANGED normalGeometry
       ELSE /\ fullScreenIcon' = "end-fullscreen-button-icon-white.png"
            /\ UNCHANGED maximizeIcon
            /\ windowState' = showFullScreen(windowState)
            /\ normalGeometry' = SavedNormal
            /\ geometry' = Screen
    /\ scenario' = IF scenario = 1 THEN 2 ELSE 0
    /\ UNCHANGED ev
    /\ UNCHANGED <<start, drag, held, grab>>
    /\ UNCHANGED frameVars

\* The icon variants.
MaximizeIconActive == maximizeIcon = "normal-button-icon-white.png"
FullScreenIconActive == fullScreenIcon = "end-fullscreen-button-icon-white.png"
MaximizeIconInactive ==
    maximizeIcon \in {"Images\\maximize-button-icon-white.png",
                      "maximize-button-icon-white.png"}
FullScreenIconInactive ==
    fullScreenIcon \in {"Images\\fullscreen-button-icon-white.png",
                        "fullscreen-button-icon-white.png"}

\* The state after construction of a window shown with geometry g.
InitAt(g) ==
    /\ geometry = g
    /\ rect = <<>>
    /\ _drag_pos = <<>>
    /\ _resizing = FALSE
    /\ _resize_direction = None
    /\ cursor = "ArrowCursor"
    /\ held = {}
    /\ grab = "none"
    /\ ev = Event("none", None, <<>>, <<>>)
    /\ lastPress = "never"
    /\ start = <<>>
    /\ windowState = [maximized |-> FALSE, fullscreen |-> FALSE]
    /\ normalGeometry = geometry
    /\ maximizeIcon = "Images\\maximize-button-icon-white.png"
    /\ fullScreenIcon = "Images\\fullscreen-button-icon-white.png"
    /\ drag = NoDrag
    /\ scenario = 0
    /\ raised = "none"

Init == InitAt([x |-> OriginX, y |-> OriginY, w |-> minimumWidth, h |-> minimumHeight])

\* Events are delivered as long as no handler has left an exception unhandled
\* (PyQt5 aborts the application on one); the handlers themselves raise nothing.
Delivering == raised = "none" /\ UNCHANGED raised

FramePress ==
    Delivering /\ \E b \in Buttons, p \in Pointers : MainWindow_mousePressEvent(b, p)
FrameMove == Delivering /\ \E p \in Pointers : MainWindow_mouseMoveEvent(p)
FrameRelease == Delivering /\ \E b \in Buttons : MainWindow_mouseReleaseEvent(b)

NextFrame == FramePress \/ FrameMove \/ FrameRelease

SpecFrame == Init /\ [][NextFrame]_vars

(* ---- hit-testing on its own: presses at the margin boundaries ---------- *)
ProbeXs(w) == {0, _edge_margin - 1, _edge_margin, _edge_margin + 1,
               w - _edge_margin - 1, w - _edge_margin, w - _edge_margin + 1, w - 1}
ProbeYs(h) == {0, _edge_margin - 1, _edge_margin, _edge_margin + 1,
               TitleBarHeight,
               h - _edge_margin - 1, h - _edge_margin, h - _edge_margin + 1, h - 1}
ProbePointers ==
    {[x |-> geometry.x + lx, y |-> geometry.y + ly] :
        lx \in ProbeXs(geometry.w), ly \in ProbeYs(geometry.h)}

InitClassify ==
    \E w \in WindowWs, h \in WindowHs :
        InitAt([x |-> OriginX, y |-> OriginY, w |-> w, h |-> h])

ProbePress ==
    Delivering /\ \E b \in Buttons, p \in ProbePointers : MainWindow_mousePressEvent(b, p)

NextClassify == ProbePress \/ FrameRelease

SpecClassify == InitClassify /\ [][NextClassify]_vars

TitlePress ==
    Delivering /\ \E b \in Buttons, p \in Pointers : CustomTitleBar_mousePressEvent(b, p)
TitleMove == Delivering /\ \E p \in Pointers : CustomTitleBar_mouseMoveEvent(p)
TitleMoveStartNone ==
    raised = "none" /\ \E p \in Pointers : CustomTitleBar_mouseMoveEvent_startNone(p)
TitleRelease == Delivering /\ \E b \in Buttons : CustomTitleBar_mouseReleaseEvent(b)
MaximizeClicked == Delivering /\ showParentMaximized
FullScreenClicked == Delivering /\ showParentFullScreen

NextTitle ==
    \/ TitlePress
    \/ TitleMove
    \/ TitleMoveStartNone
    \/ TitleRelease
    \/ MaximizeClicked
    \/ FullScreenClicked

SpecTitle == Init /\ [][NextTitle]_vars

(* ======================================================================= *)
(* Properties                                                              *)
(* ======================================================================= *)
Corners == {"top-left", "bottom-left", "top-right", "bottom-right"}

\* A primary-button press on the frame was the last event.
AfterPrimaryPress == ev.kind = "press" /\ ev.button = "LeftButton"

\* C1: after a primary-button press at local position p on a w x h window,
\* the direction _get_resize_direction returned is one of the 8 directions or
\* None; it is a corner exactly when a horizontal and a vertical proximity
\* condition both hold, it is that corner exactly when its own two conditions
\* hold, and it is None exactly when no proximity condition holds.
C1_ClassifyEdge ==
    AfterPrimaryPress =>
        LET p == ev.pos[1]
            d == _resize_direction
            nl == p.x <= _edge_margin
            nr == p.x >= geometry.w - _edge_margin
            nt == p.y <= _edge_margin
            nb == p.y >= geometry.h - _edge_margin
        IN /\ d \in Directions \cup {None}
           /\ d \in Corners <=> (nl \/ nr) /\ (nt \/ nb)
           /\ d = "top-left" <=> nl /\ nt
           /\ d = "bottom-left" <=> nl /\ nb
           /\ d = "top-right" <=> nr /\ nt
           /\ d = "bottom-right" <=> nr /\ nb
           /\ d = None <=> ~(nl \/ nr \/ nt \/ nb)

\* C1 witness: a press exactly on the margin boundary of both axes gave top-left.
C1_Witness ==
    /\ AfterPrimaryPress
    /\ ev.pos[1] = [x |-> _edge_margin, y |-> _edge_margin]
    /\ _resize_direction = "top-left"

\* A move of an active resize session was the last event.
AfterSessionMove == ev.kind = "move" /\ MoveResizes /\ rect # <<>>

\* C2: after every move of a session whose direction contains "right", the
\* rectangle handed to setGeometry and the window are at least minimumWidth wide.
C2_RightKeepsMinWidth ==
    (AfterSessionMove /\ StrIn("right", _resize_direction)) =>
        /\ rect[1].w >= minimumWidth
        /\ geometry.w >= minimumWidth

\* C2 witness: in a Right session the pointer went left of the right edge zone
\* of a minimum-width window, so a negative delta was clamped.
C2_Witness ==
    /\ AfterSessionMove
    /\ StrIn("right", _resize_direction)
    /\ geometry.w = minimumWidth
    /\ LocalPos(_drag_pos[1]).x < minimumWidth - _edge_margin

\* C3: after every move of a session whose direction contains "bottom", the
\* rectangle handed to setGeometry and the window are at least minimumHeight high.
C3_BottomKeepsMinHeight ==
    (AfterSessionMove /\ StrIn("bottom", _resize_direction)) =>
        /\ rect[1].h >= minimumHeight
        /\ geometry.h >= minimumHeight

\* C3 witness: in a Bottom session the pointer went above the bottom edge zone
\* of a minimum-height window, so a negative delta was clamped.
C3_Witness ==
    /\ AfterSessionMove
    /\ StrIn("bottom", _resize_direction)
    /\ geometry.h = minimumHeight
    /\ LocalPos(_drag_pos[1]).y < minimumHeight - _edge_margin

\* C4: in every state reached by presses, moves and releases on the frame the
\* window is at least minimumWidth wide and minimumHeight high.
C4_GeometryKeepsMinimum ==
    /\ geometry.w >= minimumWidth
    /\ geometry.h >= minimumHeight

\* C4 witness: a Left or Top session asked for a rectangle below the minimum
\* size and the window stayed at the minimum.
C4_Witness ==
    /\ AfterSessionMove
    /\ StrIn("left", _resize_direction)
    /\ StrIn("top", _resize_direction)
    /\ rect[1].w < minimumWidth
    /\ rect[1].h < minimumHeight
    /\ geometry.w = minimumWidth
    /\ geometry.h = minimumHeight

\* C5: after a release on the frame the direction is None, the resizing flag
\* is false and the cursor is the arrow.
C5_ReleaseResets ==
    ev.kind = "release" =>
        /\ _resize_direction = None
        /\ _resizing = FALSE
        /\ cursor = "ArrowCursor"

\* C5 witness: the release of a secondary button ended an active session whose
\* cursor was a resize cursor, while the primary button is still down.
C5_Witness ==
    /\ ev.kind = "release"
    /\ ev.button = "RightButton"
    /\ "LeftButton" \in held
    /\ ev.was[1] = TRUE
    /\ ev.was[2] \in Directions
    /\ ev.was[3] # "ArrowCursor"

\* C6: the direction is None whenever no button is held, and whenever the most
\* recent primary-button press landed outside the edge margin.
C6_DirectionNoneOutsideSession ==
    /\ held = {} => _resize_direction = None
    /\ lastPress = "interior" => _resize_direction = None

\* C6 witness: the primary button is held after a press outside the margin that
\* followed an earlier session.
C6_Witness ==
    /\ lastPress = "interior"
    /\ "LeftButton" \in held
    /\ rect # <<>>

\* C10: a move delivered to the frame while no session is active changes none
\* of geometry, anchor, direction, resizing flag and cursor.
C10_MoveWithoutSessionIsNoOp ==
    [][(ev'.kind = "move" /\ ~MoveResizes) =>
          UNCHANGED <<geometry, _drag_pos, _resize_direction, _resizing, cursor>>]_vars

\* C10 witness: a move arrived while the primary button is held after a press
\* outside the margin.
C10_Witness ==
    /\ ev.kind = "move"
    /\ ~MoveResizes
    /\ lastPress = "interior"
    /\ "LeftButton" \in held

\* C7: in a drag that began with a title-bar press on a maximized window, once
\* a move has been applied exactly one showNormal() call has been issued, and
\* it had been issued when the first window move was applied.
C7_OneRestorePerMaximizedDrag ==
    (drag.from = "maximized" /\ drag.moves # "none") =>
        /\ drag.showNormalCalls = 1
        /\ drag.callsAtFirstMove = <<1>>

\* C7 witness: a drag from the maximized state with several moves applied and
\* the window back to normal.
C7_Witness ==
    /\ drag.from = "maximized"
    /\ drag.moves = "several"
    /\ drag.showNormalCalls = 1
    /\ IsNormal(windowState)

\* C8 (as claimed): after maximize, fullscreen, maximize clicked in that order
\* on a normal window, the window is neither maximized nor fullscreen and both
\* icons are in their inactive variant.
C8_ScenarioEndsNormal ==
    scenario = 3 =>
        /\ IsNormal(windowState)
        /\ MaximizeIconInactive
        /\ FullScreenIconInactive

\* C9 (as claimed): the maximize icon and the fullscreen icon are never both in
\* their active variant.
C9_IconsNeverBothActive == ~(MaximizeIconActive /\ FullScreenIconActive)


\* C11: a release delivered to the frame while no session is active changes
\* none of geometry, direction, resizing flag and cursor; and whenever no
\* session is active the cursor is the arrow.
C11_ReleaseWithoutSessionIsNoOp ==
    /\ [](~MoveResizes => cursor = "ArrowCursor")
    /\ [][(ev'.kind = "release" /\ ~MoveResizes) =>
             UNCHANGED <<geometry, _resize_direction, _resizing, cursor>>]_vars

\* C11 witness: the primary button was released after a press outside the
\* margin, with no session active before the release.
C11_Witness ==
    /\ ev.kind = "release"
    /\ ev.button = "LeftButton"
    /\ ev.was = <<FALSE, None, "ArrowCursor">>
    /\ lastPress = "interior"


\* The scenario of the specification: window (100,100,800,600), press at local
\* (799,300), move by (+50,0).
C12_Scenario ==
    LET g == [x |-> 100, y |-> 100, w |-> 800, h |-> 600]
        d == _get_resize_direction([x |-> 799, y |-> 300], g.w, g.h)
    IN /\ d = "right"
       /\ setGeometry(ResizedRect(g, [x |-> 50, y |-> 0], d))
            = [x |-> 100, y |-> 100, w |-> 850, h |-> 600]

\* C12: every move of a session whose direction is exactly "right", with
\* incremental delta dx, sets the width (of the rectangle handed to setGeometry
\* and of the window) to max(width + dx, minimumWidth) and leaves the window's
\* left, top and height unchanged; the scenario gives width 850, left 100.
C12_RightSessionMove ==
    /\ []C12_Scenario
    /\ [][(ev'.kind = "move" /\ MoveResizes /\ _resize_direction = "right") =>
             LET dx == _drag_pos'[1].x - _drag_pos[1].x
             IN /\ rect'[1].w = Max(geometry.w + dx, minimumWidth)
                /\ geometry'.w = Max(geometry.w + dx, minimumWidth)
                /\ geometry'.x = geometry.x
                /\ geometry'.y = geometry.y
                /\ geometry'.h = geometry.h]_vars

\* C12 witness: a move of a Right session widened the window and left its
\* top-left corner where it was first shown.
C12_Witness ==
    /\ AfterSessionMove
    /\ _resize_direction = "right"
    /\ geometry.w > minimumWidth
    /\ geometry.x = OriginX
    /\ rect[1] = geometry


\* C13: in a title-bar drag whose latest press found the window normal, after
\* the press at p0 and any moves ending at pn the anchor is pn and the window
\* position is its position at the press plus (pn - p0).
C13_TitleDragIsIncremental ==
    (drag.from # "none" /\ drag.normalAtPress) =>
        /\ start = drag.last
        /\ geometry.x = drag.last[1].x + drag.offset[1].x
        /\ geometry.y = drag.last[1].y + drag.offset[1].y

\* C13 witness: several moves of a drag begun on a normal window have
\* displaced the window on both axes.
C13_Witness ==
    /\ drag.from = "normal"
    /\ drag.normalAtPress
    /\ drag.moves = "several"
    /\ geometry.x > OriginX
    /\ geometry.y > OriginY


\* C14 (as claimed): the maximize icon is in its active variant if and only if
\* the window is maximized, and the fullscreen icon is in its active variant if
\* and only if the window is fullscreen.
C14_IconsReflectState ==
    /\ MaximizeIconActive <=> isMaximized(windowState)
    /\ FullScreenIconActive <=> isFullScreen(windowState)


\* C15 (as claimed): a move delivered to the title bar before any title-bar
\* press raises nothing and changes neither the window's geometry, nor its
\* maximized/fullscreen state, nor the icons.
C15_MoveBeforePressIsNoOp ==
    [][TitleMoveStartNone =>
          /\ raised' = "none"
          /\ UNCHANGED <<geometry, windowState, maximizeIcon, fullScreenIcon>>]_vars


\* C16: after every move of an active resize session the cursor is the one
\* the fixed mapping gives for the classification of the event's local
\* position: left/right horizontal, top/bottom vertical, top-left/bottom-right
\* forward diagonal, top-right/bottom-left backward diagonal, None the arrow;
\* whatever the session's own direction is.
C16_CursorFollowsPosition ==
    AfterSessionMove =>
        LET d == _get_resize_direction(ev.pos[1], geometry.w, geometry.h)
        IN /\ d \in {"left", "right"} <=> cursor = "SizeHorCursor"
           /\ d \in {"top", "bottom"} <=> cursor = "SizeVerCursor"
           /\ d \in {"top-left", "bottom-right"} <=> cursor = "SizeFDiagCursor"
           /\ d \in {"top-right", "bottom-left"} <=> cursor = "SizeBDiagCursor"
           /\ d = None <=> cursor = "ArrowCursor"

\* C16 witness: after a session move the cursor is a resize cursor other than
\* the one of the session's direction.
C16_Witness ==
    /\ AfterSessionMove
    /\ cursor # "ArrowCursor"
    /\ cursor # CursorFor(_resize_direction)


\* C17: a move with delta (dx, dy) of a session whose direction contains
\* "left" hands setGeometry a rectangle whose left is the old left plus dx and
\* whose right edge (left + width) is the old one, with no lower limit on the
\* width; and likewise for "top" with the top, dy and the bottom edge.
C17_LeftTopMoveOneEdge ==
    [][(ev'.kind = "move" /\ MoveResizes) =>
          LET dx == _drag_pos'[1].x - _drag_pos[1].x
              dy == _drag_pos'[1].y - _drag_pos[1].y
              r == rect'[1]
          IN /\ StrIn("left", _resize_direction) =>
                  /\ r.x = geometry.x + dx
                  /\ r.x + r.w = geometry.x + geometry.w
             /\ StrIn("top", _resize_direction) =>
                  /\ r.y = geometry.y + dy
                  /\ r.y + r.h = geometry.y + geometry.h]_vars

\* C17 witness: a move of a top-left session handed setGeometry a rectangle
\* narrower than the minimum width and lower than the minimum height.
C17_Witness ==
    /\ AfterSessionMove
    /\ _resize_direction = "top-left"
    /\ rect[1].w < minimumWidth
    /\ rect[1].h < minimumHeight


\* C18: with presses and releases of each button alternating, the resizing
\* flag is set only while the direction is not None, and no move changes the
\* direction, wherever its position lies.
C18_DirectionFixedDuringSession ==
    /\ [](_resizing => _resize_direction # None)
    /\ [][ev'.kind = "move" => UNCHANGED _resize_direction]_vars

\* C18 witness: after a move of a session the event's position classifies as
\* None while the session's direction, set at the press, is still "bottom".
C18_Witness ==
    /\ AfterSessionMove
    /\ _resizing
    /\ _resize_direction = "bottom"
    /\ _get_resize_direction(ev.pos[1], geometry.w, geometry.h) = None


\* C19: whenever the window is neither maximized nor fullscreen both icons are
\* in their inactive variant, and every step that brings the window back to
\* normal sets both icons to their inactive file.
C19_NormalHasInactiveIcons ==
    /\ [](IsNormal(windowState) => MaximizeIconInactive /\ FullScreenIconInactive)
    /\ [][(~IsNormal(windowState) /\ IsNormal(windowState')) =>
             /\ maximizeIcon' = "maximize-button-icon-white.png"
             /\ fullScreenIcon' = "fullscreen-button-icon-white.png"]_vars

\* C19 witness: the first move of a drag begun on a fullscreen window has
\* brought the window back to normal with both icons reset.
C19_Witness ==
    /\ drag.from = "fullscreen"
    /\ drag.moves = "one"
    /\ IsNormal(windowState)
    /\ maximizeIcon = "maximize-button-icon-white.png"
    /\ fullScreenIcon = "fullscreen-button-icon-white.png"

====
